---------------------------- MODULE Spec2Model ----------------------------
(***************************************************************************)
(* kcomprs: colour quantisation of images by k-means.                      *)
(*                                                                         *)
(* Two parts of the program are modelled.                                  *)
(*   - the command line program of src/src/cli.rs: Cli::new, the scan of   *)
(*     the input files into jobs (Cli::read_images), the dispatcher        *)
(*     (Cli::execute) with its worker threads, and handle_image;           *)
(*   - the clustering engine of src/src/kmeans/model.rs: Trainer::fit and  *)
(*     Model::initialize_mean.                                             *)
(*                                                                         *)
(* f64 values are modelled as exact rationals (a centroid is a vector of   *)
(* numerators over one denominator), NaN as the denominator 0; rounding    *)
(* of the floating point operations is not modelled.                       *)
(***************************************************************************)
EXTENDS Integers, Sequences, FiniteSets, TLC

VARIABLES
    \* ---- the command line program (cli.rs) ----
    numCpus,        \* num_cpus::get(): the machine's CPU count
    argConcurrency, \* the value parsed for --concurrency
    concurrency,    \* cli.concurrency
    colors,         \* cli.colors
    series,         \* cli.series: <<>> is None, <<s>> is Some(s)
    overwrite,      \* cli.overwrite
    palette,        \* cli.palette
    nfiles,         \* number of (decodable) image files in cli.files
    pixels,         \* width * height of every image
    scanned,        \* files read by scan_images so far
    images,         \* the Vec<DecodedImage>: the job pool
    mainPc,         \* position of the main thread
    wpc,            \* position of every worker thread
    held,           \* the image a thread popped: <<>> or <<job>>
    lockOwner,      \* holder of the Mutex guard, 0 when unlocked
    poisoned,       \* the Mutex's poison flag
    fs,             \* file system: output path -> "none" | "file" | "dir"
    calls,          \* job id -> number of handle_image calls on it
    claimers,       \* job id -> set of threads that took it from the pool
    sawExisting,    \* job id -> what fs::metadata(outfile) showed handle_image
    fitted,         \* job id -> number of models Trainer::fit returned for it
    writes,         \* job id -> the files handle_image wrote for it
    result,         \* job id -> "none" | "ok" | "panic"
    jobs,           \* the images as scan_images returned them
    \* ---- the clustering engine (kmeans/model.rs) ----
    data,           \* the Dataset: [0..n-1 -> sample]
    trainerK,       \* Trainer.k
    max_iterations, \* Trainer.max_iterations
    deltaPermille,  \* Trainer.delta, in thousandths
    distance_fn,    \* Trainer.distance_fn
    centroids,      \* model.centroids: [0..k-1 -> centroid]
    mapping,        \* model.mapping: [0..n-1 -> label]
    iter,           \* the loop counter iter, model.iter at the end
    nextCentroid,   \* the index i of initialize_mean's loop
    fitPc,          \* position inside Trainer::fit
    emptyCluster    \* some iteration computed 1.0 / 0 for a centroid

\* What the run is given: the machine, the command line, the files.
inputs == <<numCpus, argConcurrency, colors, series, overwrite, palette,
            nfiles, pixels>>

\* What is recorded about every job.
history == <<calls, claimers, sawExisting, fitted, writes, result, jobs>>

threads == <<wpc, held, lockOwner, poisoned>>

cliVars == <<inputs, concurrency, scanned, images, mainPc, threads, fs, history>>

fitVars == <<data, trainerK, max_iterations, deltaPermille, distance_fn,
             centroids, mapping, iter, nextCentroid, fitPc, emptyCluster>>

vars == <<cliVars, fitVars>>

---------------------------------------------------------------------------
(* Bounds of the model.                                                    *)

MaxSamples == 3
MaxK == 3
MaxIter == 2
MaxGray == 1
MaxCpus == 2
MaxConcurrency == 2
MaxColors == 3
MaxSeries == 2
MaxFiles == 2
MaxPixels == 1
MaxSeriesColors == 12
MaxSeriesCount == 6

---------------------------------------------------------------------------
(* kmeans/cluster.rs and kmeans/model.rs                                   *)

Channels == 1..4

\* Samples used for bounded datasets: opaque grey pixels.
Palette == {<<v, v, v, 255>> : v \in 0..MaxGray}

Metrics == {"EuclideanDistance", "EuclideanDistanceSquared"}

\* Convergence fractions, in thousandths: 0, the default 0.005 and one half.
Deltas == {0, 5, 500}

RECURSIVE SumOver(_, _)
SumOver(f, S) ==
    IF S = {} THEN 0
    ELSE LET x == CHOOSE y \in S : TRUE IN f[x] + SumOver(f, S \ {x})

\* A centroid is num / den componentwise; den = 0 is NaN.
NaN == [num |-> <<0, 0, 0, 0>>, den |-> 0]

FromSample(x) == [num |-> x, den |-> 1]

ZeroCentroid == FromSample(<<0, 0, 0, 0>>)

\* The sum of t * t over the four components, t = a[i] - b[i], as the
\* fraction n / d (d = 0: NaN).
SumSquares(c, x) ==
    [n |-> SumOver([i \in Channels |-> (c.num[i] - c.den * x[i]) * (c.num[i] - c.den * x[i])],
                   Channels),
     d |-> c.den * c.den]

\* d < m for two distances of the same metric.  The square root of
\* euclidean_distance is monotone, so both metrics order distances as the
\* sums of squares do; a comparison with NaN is false.
DistLess(d, m) == d.d # 0 /\ m.d # 0 /\ d.n * m.d < m.n * d.d

\* l * l for l = distance_fn(centroid, sample), the centroid being a sample.
WeightOf(fn, sumsq) ==
    IF fn = "EuclideanDistance" THEN sumsq ELSE sumsq * sumsq

\* (data.len() as f64 * delta) as usize
ChangeThreshold(n, permille) == (n * permille) \div 1000

\* The scan for the nearest centroid: for j in from..k-1, if d < m then
\* (m, n) = (d, j).  Gives n.
RECURSIVE NearestFrom(_, _, _, _, _, _)
NearestFrom(cs, k, x, j, m, n) ==
    IF j >= k THEN n
    ELSE LET d == SumSquares(cs[j], x)
         IN IF DistLess(d, m) THEN NearestFrom(cs, k, x, j + 1, d, j)
            ELSE NearestFrom(cs, k, x, j + 1, m, n)

\* The nearest centroid counted from 1 instead of 0.
NearestOneBased(cs, k, x) == NearestFrom(cs, k, x, 1, SumSquares(cs[0], x), 0) + 1

Nearest(cs, k, x) == NearestFrom(cs, k, x, 1, SumSquares(cs[0], x), 0)

\* The least distance from x to the centroids 0..i-1, as a sum of squares
\* (the centroids are samples here).
RECURSIVE MinSumSquares(_, _, _, _, _)
MinSumSquares(cs, i, x, g, l) ==
    IF g >= i THEN l
    ELSE LET f == SumSquares(cs[g], x).n
         IN MinSumSquares(cs, i, x, g + 1, IF f < l THEN f ELSE l)

\* d[j] of initialize_mean for the centroid i.
InitWeights(fn, cs, i, dat) ==
    [j \in DOMAIN dat |->
        WeightOf(fn, MinSumSquares(cs, i, dat[j], 1, SumSquares(cs[0], dat[j]).n))]

\* The walk of initialize_mean: k = 0, s = d[0]; until s >= t: k += 1,
\* s += d[k].  t2 is twice t.
RECURSIVE Walk(_, _, _, _)
Walk(d, t2, k, s) ==
    IF 2 * s >= t2 THEN k ELSE Walk(d, t2, k + 1, s + d[k + 1])

RECURSIVE Cumulative(_, _)
Cumulative(d, j) == IF j = 0 THEN d[0] ELSE Cumulative(d, j - 1) + d[j]

\* t = random_range(0.0..1.0) * s is any real of [0, s), and 0 when s = 0.
\* The walk compares t with the partial sums of d only, so one value of
\* every interval between two partial sums stands for the interval: t = 0
\* and, for every j with d[j] > 0, t = d[0] + ... + d[j] - 1/2.  The set
\* holds twice these values.
Thresholds2(d) ==
    {0} \cup {2 * Cumulative(d, j) - 1 : j \in {i \in DOMAIN d : d[i] > 0}}

\* Trainer::fit panics on its first statement after the construction of
\* the model when there is no centroid 0 to assign.
FitPanics(k) == k = 0

\* The labels one iteration assigns.
Assign(cs, k, dat) == [i \in DOMAIN dat |-> Nearest(cs, k, dat[i])]

Members(m, n) == {i \in DOMAIN m : m[i] = n}

\* cn[n] after the assignment loop: the componentwise sum of the samples
\* labelled n.
ClusterSum(dat, m, n) ==
    [c \in Channels |-> SumOver([i \in DOMAIN dat |-> dat[i][c]], Members(m, n))]

\* cn[i] * (1.0 / cb[i]): the mean, NaN (0 * inf) for an empty cluster.
Mean(dat, m, n) ==
    IF Members(m, n) = {} THEN NaN
    ELSE [num |-> ClusterSum(dat, m, n), den |-> Cardinality(Members(m, n))]

Changes(old, new) == Cardinality({i \in DOMAIN old : old[i] # new[i]})

cliIdle ==
    /\ numCpus = 1 /\ argConcurrency = 1 /\ concurrency = 1 /\ colors = 1
    /\ series = <<>> /\ overwrite = FALSE /\ palette = FALSE
    /\ nfiles = 0 /\ pixels = 1
    /\ scanned = 0 /\ images = <<>> /\ mainPc = "idle" /\ wpc = <<>>
    /\ held = <<>> /\ lockOwner = 0 /\ poisoned = FALSE /\ fs = <<>>
    /\ calls = <<>> /\ claimers = <<>> /\ sawExisting = <<>> /\ fitted = <<>>
    /\ writes = <<>> /\ result = <<>> /\ jobs = <<>>

\* Trainer::fit up to the call of initialize_mean: the model is built with
\* k zero centroids and every label 0.
FitStart(dat, k, rounds, permille, fn) ==
    /\ data = dat
    /\ trainerK = k
    /\ max_iterations = rounds
    /\ deltaPermille = permille
    /\ distance_fn = fn
    /\ centroids = [i \in 0..(k - 1) |-> ZeroCentroid]
    /\ mapping = [i \in DOMAIN dat |-> 0]
    /\ iter = 0
    /\ nextCentroid = 0
    /\ fitPc = "initialize_mean"
    /\ emptyCluster = FALSE

Datasets == UNION {[0..(n - 1) -> Palette] : n \in 1..MaxSamples}

InitFit ==
    /\ cliIdle
    /\ \E dat \in Datasets, k \in 0..MaxK, rounds \in 0..MaxIter,
          permille \in Deltas, fn \in Metrics :
            FitStart(dat, k, rounds, permille, fn)

\* self.centroids[0] = data[random_range(0..data.len())]
InitializeFirst ==
    /\ fitPc = "initialize_mean"
    /\ nextCentroid = 0
    /\ IF FitPanics(trainerK)
       THEN /\ fitPc' = "panicked"
            /\ UNCHANGED <<centroids, nextCentroid>>
       ELSE /\ \E r \in DOMAIN data :
                 centroids' = [centroids EXCEPT ![0] = FromSample(data[r])]
            /\ nextCentroid' = 1
            /\ fitPc' = IF trainerK > 1 THEN "initialize_mean" ELSE "loop"
    /\ UNCHANGED <<data, trainerK, max_iterations, deltaPermille, distance_fn,
                   mapping, iter, emptyCluster>>
    /\ UNCHANGED cliVars

\* One round of `for i in 1..self.k`: the weights, the random threshold
\* and the walk that picks centroid i.
InitializeNext ==
    /\ fitPc = "initialize_mean"
    /\ nextCentroid >= 1
    /\ nextCentroid < trainerK
    /\ LET d == InitWeights(distance_fn, centroids, nextCentroid, data)
       IN \E t2 \in Thresholds2(d) :
            centroids' = [centroids EXCEPT
                            ![nextCentroid] = FromSample(data[Walk(d, t2, 0, d[0])])]
    /\ nextCentroid' = nextCentroid + 1
    /\ fitPc' = IF nextCentroid + 1 < trainerK THEN "initialize_mean" ELSE "loop"
    /\ UNCHANGED <<data, trainerK, max_iterations, deltaPermille, distance_fn,
                   mapping, iter, emptyCluster>>
    /\ UNCHANGED cliVars

\* One iteration of the refinement loop: the assignment of every sample,
\* the new means, and the convergence test.
Iterate ==
    /\ fitPc = "loop"
    /\ iter < max_iterations
    /\ LET new == Assign(centroids, trainerK, data)
           changes == Changes(mapping, new)
       IN /\ mapping' = new
          /\ centroids' = [n \in 0..(trainerK - 1) |-> Mean(data, new, n)]
          /\ emptyCluster' = (emptyCluster \/ \E n \in 0..(trainerK - 1) : Members(new, n) = {})
          /\ fitPc' = IF changes < ChangeThreshold(Cardinality(DOMAIN data), deltaPermille)
                      THEN "done" ELSE "loop"
    /\ iter' = iter + 1
    /\ UNCHANGED <<data, trainerK, max_iterations, deltaPermille, distance_fn,
                   nextCentroid>>
    /\ UNCHANGED cliVars

\* if iter >= self.max_iterations { break }
LoopExit ==
    /\ fitPc = "loop"
    /\ iter >= max_iterations
    /\ fitPc' = "done"
    /\ UNCHANGED <<data, trainerK, max_iterations, deltaPermille, distance_fn,
                   centroids, mapping, iter, nextCentroid, emptyCluster>>
    /\ UNCHANGED cliVars

NextFit == InitializeFirst \/ InitializeNext \/ Iterate \/ LoopExit

SpecFit == InitFit /\ [][NextFit]_vars

---------------------------------------------------------------------------
(* The 2 x 2 images of black and white pixels under the defaults of the    *)
(* command line, as handle_image hands them to Trainer::fit.               *)

Black == <<0, 0, 0, 255>>

White == <<255, 255, 255, 255>>

\* --delta's default_value, 0.005
DefaultDeltaPermille == 5

\* --dalgo's default_value
DefaultMetric == "EuclideanDistance"

E2EImages == [0..3 -> {Black, White}]

E2EImage == [i \in 0..3 |-> IF i < 2 THEN Black ELSE White]

InitE2E ==
    /\ cliIdle
    /\ \E dat \in E2EImages :
            FitStart(dat, 2, 10, DefaultDeltaPermille, DefaultMetric)

SpecE2E == InitE2E /\ [][NextFit]_vars

---------------------------------------------------------------------------
(* Claims about Trainer::fit.                                              *)

DatasetSum(dat) ==
    [c \in Channels |-> SumOver([i \in DOMAIN dat |-> dat[i][c]], DOMAIN dat)]

\* The centroid c is the sample x.
CentroidIs(c, x) == c.den # 0 /\ \A ch \in Channels : c.num[ch] = c.den * x[ch]

\* The centroid c is the componentwise mean of the dataset.
IsMeanOf(c, dat) ==
    /\ c.den # 0
    /\ \A ch \in Channels :
          c.num[ch] * Cardinality(DOMAIN dat) = c.den * DatasetSum(dat)[ch]

AllIdentical(dat) == \A i, j \in DOMAIN dat : dat[i] = dat[j]

\* C4: with k = 1 and max_iterations >= 1, for any non-empty dataset and
\* any delta in [0, 1), fit returns iter = 1 and a single centroid equal to
\* the componentwise mean of the dataset.
C4_SingleClusterOneIteration ==
    (fitPc = "done" /\ trainerK = 1 /\ max_iterations >= 1)
        => (iter = 1 /\ IsMeanOf(centroids[0], data))

\* C5: on a dataset of identical samples, with any k >= 1 and
\* max_iterations >= 1, fit ends with iter = 1 and no iteration has divided
\* by the zero count of a centroid without samples.
C5_IdenticalSamplesNoEmptyCluster ==
    (fitPc = "done" /\ AllIdentical(data) /\ trainerK >= 1 /\ max_iterations >= 1)
        => (iter = 1 /\ ~emptyCluster)

\* C6: on the image black, black, white, white with k = 2, 10 rounds and
\* delta 0.005, whatever the random draws, fit returns the centroids black
\* and white in some order, two samples under each label, and iter <= 2.
C6_TwoColourImage ==
    (fitPc = "done" /\ data = E2EImage /\ trainerK = 2 /\ max_iterations = 10
        /\ deltaPermille = DefaultDeltaPermille)
        => /\ \/ CentroidIs(centroids[0], Black) /\ CentroidIs(centroids[1], White)
              \/ CentroidIs(centroids[0], White) /\ CentroidIs(centroids[1], Black)
           /\ Cardinality(Members(mapping, 0)) = 2
           /\ Cardinality(Members(mapping, 1)) = 2
           /\ iter <= 2

\* C11: for a non-empty dataset, 1 <= k <= dataset size and any
\* max_iterations >= 0, the model has exactly k centroids, one label per
\* sample, every label in 0..k-1, and iter <= max_iterations, after the
\* initialization, after every iteration of the loop and at the return.
C11_ModelShape ==
    (fitPc \in {"loop", "done"} /\ trainerK >= 1
        /\ trainerK <= Cardinality(DOMAIN data))
        => /\ DOMAIN centroids = 0..(trainerK - 1)
           /\ DOMAIN mapping = DOMAIN data
           /\ \A i \in DOMAIN mapping : mapping[i] >= 0 /\ mapping[i] < trainerK
           /\ iter <= max_iterations

\* A fit with several clusters returned after the last allowed iteration,
\* the highest label in use.
C11_Witness ==
    /\ fitPc = "done"
    /\ trainerK >= 2 /\ trainerK <= Cardinality(DOMAIN data)
    /\ iter >= 2 /\ iter = max_iterations
    /\ \E i \in DOMAIN mapping : mapping[i] = trainerK - 1

---------------------------------------------------------------------------
(* cli.rs: Cli::new, scan_images / read_images, execute, handle_image.     *)
(* Jobs are written in the lossless format (--jpeg at its default 0).      *)

fitIdle ==
    /\ data = <<>> /\ trainerK = 0 /\ max_iterations = 0 /\ deltaPermille = 0
    /\ distance_fn = "EuclideanDistance" /\ centroids = <<>> /\ mapping = <<>>
    /\ iter = 0 /\ nextCentroid = 0 /\ fitPc = "idle" /\ emptyCluster = FALSE

Min(a, b) == IF a < b THEN a ELSE b

Max(a, b) == IF a < b THEN b ELSE a

\* default_concurrency(): the default of --concurrency.
DefaultConcurrency(num) == Max(num, 1)

\* The value Cli::new replaces a --concurrency of 0 by.
AutoConcurrency(num) == Min(num, 1)

\* cli.concurrency as Cli::new leaves it.
NewConcurrency(arg, num) == IF arg <= 0 THEN AutoConcurrency(num) ELSE arg

\* The loop over start..=s, one index too far.
SeriesRangeInclusive(start, s) == [n \in 1..Max(s - start + 1, 0) |-> start + n - 1]

\* `for i in start..s` of read_images: the indices the loop visits.
SeriesRange(start, s) == [n \in 1..Max(s - start, 0) |-> start + n - 1]

\* The k-values (config.colors) of the jobs read_images pushes for one
\* image, in the order pushed; ser is Some(s) with s > 0, or None.
SeriesColors(cols, ser) ==
    IF ser = <<>> THEN <<cols>>
    ELSE LET step0 == cols \div ser[1]
             fallback == step0 <= 1
             start == IF fallback THEN 2 ELSE 1
             step == IF fallback THEN 1 ELSE step0
             s == IF fallback THEN cols ELSE ser[1]
             range == SeriesRange(start, s)
         IN [n \in DOMAIN range |-> step * range[n]] \o <<cols>>

\* The output path of a job: the file's stem and the job's colors (round
\* and the extension are the same for every job of a run).
Outfile(job) == <<job.path, job.k>>

\* fs::metadata(outfile)
Stat(path) == IF path \in DOMAIN fs THEN fs[path] ELSE "none"

\* The test on the existing output with the overwrite flag taken the wrong
\* way round.
SkipsWhenOverwrite(kind, ow) == kind # "none" /\ (ow \/ kind # "file")

\* handle_image returns Ok before the fit: the output exists and either
\* overwrite is off or the output is no regular file.
SkipsExisting(kind, ow) == kind # "none" /\ (~ow \/ kind # "file")

SeriesInputs == {<<>>} \cup {<<s>> : s \in 0..MaxSeries}

Kinds == {"none", "file", "dir"}

\* The state main() starts Cli::new in.
CliStart(num, arg, cols, ser, ow, pal, nf, px, files, pc) ==
    /\ numCpus = num
    /\ argConcurrency = arg
    /\ concurrency = arg
    /\ colors = cols
    /\ series = ser
    /\ overwrite = ow
    /\ palette = pal
    /\ nfiles = nf
    /\ pixels = px
    /\ scanned = 0
    /\ images = <<>>
    /\ mainPc = pc
    /\ wpc = <<>>
    /\ held = <<>>
    /\ lockOwner = 0
    /\ poisoned = FALSE
    /\ fs = files
    /\ calls = <<>>
    /\ claimers = <<>>
    /\ sawExisting = <<>>
    /\ fitted = <<>>
    /\ writes = <<>>
    /\ result = <<>>
    /\ jobs = <<>>

\* The outputs at the full --colors may exist before the run, as files or
\* as directories.
Init ==
    /\ fitIdle
    /\ \E num \in 1..MaxCpus, arg \in 0..MaxConcurrency, cols \in 0..MaxColors,
          ser \in SeriesInputs, ow \in BOOLEAN, pal \in BOOLEAN,
          nf \in 0..MaxFiles, px \in 1..MaxPixels, kind \in Kinds \ {"none"} :
            \E files \in {<<>>, [p \in {<<f, cols>> : f \in 1..nf} |-> kind]} :
                CliStart(num, arg, cols, ser, ow, pal, nf, px, files, "new")

\* Cli::new
CliNew ==
    /\ mainPc = "new"
    /\ concurrency' = NewConcurrency(concurrency, numCpus)
    /\ mainPc' = "scan"
    /\ UNCHANGED <<inputs, scanned, images, threads, fs, history>>
    /\ UNCHANGED fitVars

\* read_images on the next file of scan_images; Some(0) divides by zero.
ReadImages ==
    /\ mainPc = "scan"
    /\ scanned < nfiles
    /\ IF series = <<0>>
       THEN /\ mainPc' = "panicked"
            /\ UNCHANGED <<scanned, images>>
       ELSE /\ LET ks == SeriesColors(colors, series)
               IN images' = images \o
                      [n \in DOMAIN ks |->
                          [id |-> Len(images) + n, path |-> scanned + 1, k |-> ks[n]]]
            /\ scanned' = scanned + 1
            /\ UNCHANGED mainPc
    /\ UNCHANGED <<inputs, concurrency, threads, fs, history>>
    /\ UNCHANGED fitVars

\* execute after the scan: nothing to do, the sequential path, or the
\* spawn of cli.concurrency workers.  Thread 0 is the main thread.
Dispatch ==
    /\ mainPc = "scan"
    /\ scanned = nfiles
    /\ IF images = <<>>
       THEN /\ mainPc' = "returned"
            /\ UNCHANGED <<wpc, held>>
       ELSE IF Len(images) = 1 \/ concurrency <= 1
       THEN /\ mainPc' = "sequential"
            /\ wpc' = [t \in {0} |-> "next"]
            /\ held' = [t \in {0} |-> <<>>]
       ELSE /\ mainPc' = "scope"
            /\ wpc' = [t \in 0..concurrency |-> IF t = 0 THEN "join" ELSE "spawned"]
            /\ held' = [t \in 0..concurrency |-> <<>>]
    /\ calls' = [j \in DOMAIN images |-> 0]
    /\ claimers' = [j \in DOMAIN images |-> {}]
    /\ sawExisting' = [j \in DOMAIN images |-> "unseen"]
    /\ fitted' = [j \in DOMAIN images |-> 0]
    /\ writes' = [j \in DOMAIN images |-> {}]
    /\ result' = [j \in DOMAIN images |-> "none"]
    /\ jobs' = images
    /\ UNCHANGED <<inputs, concurrency, scanned, images, lockOwner, poisoned, fs>>
    /\ UNCHANGED fitVars

\* The worker t holds the guard of the pool (the main thread, 0, never
\* locks it).
HoldsGuard(t) == t # 0 /\ lockOwner = t

\* The thread t leaves handle_image normally: the main thread goes on with
\* its loop, a worker's closure returns (dropping a guard it still holds).
Returns(t) ==
    /\ wpc' = [wpc EXCEPT ![t] = IF t = 0 THEN "next" ELSE "finished"]
    /\ lockOwner' = IF HoldsGuard(t) THEN 0 ELSE lockOwner
    /\ UNCHANGED <<poisoned, mainPc>>

\* The thread t panics: the main thread takes the process down, a worker
\* unwinds (a guard dropped while unwinding poisons the Mutex).
Panics(t) ==
    /\ wpc' = [wpc EXCEPT ![t] = "panicked"]
    /\ lockOwner' = IF HoldsGuard(t) THEN 0 ELSE lockOwner
    /\ poisoned' = (poisoned \/ HoldsGuard(t))
    /\ mainPc' = IF t = 0 THEN "panicked" ELSE mainPc

\* `for image in images` of the sequential path: the next image, or the
\* return of execute.
SeqNext ==
    /\ mainPc = "sequential"
    /\ wpc[0] = "next"
    /\ IF images = <<>>
       THEN /\ mainPc' = "returned"
            /\ wpc' = [wpc EXCEPT ![0] = "finished"]
            /\ UNCHANGED <<images, held, claimers>>
       ELSE /\ held' = [held EXCEPT ![0] = <<Head(images)>>]
            /\ images' = Tail(images)
            /\ claimers' = [claimers EXCEPT ![Head(images).id] = @ \cup {0}]
            /\ wpc' = [wpc EXCEPT ![0] = "handle"]
            /\ UNCHANGED mainPc
    /\ UNCHANGED <<inputs, concurrency, scanned, lockOwner, poisoned, fs,
                   calls, sawExisting, fitted, writes, result, jobs>>
    /\ UNCHANGED fitVars

\* images.lock().unwrap(): blocks while another thread holds the guard,
\* panics when the Mutex is poisoned.
Lock(w) ==
    /\ mainPc = "scope"
    /\ w \in DOMAIN wpc
    /\ wpc[w] = "spawned"
    /\ lockOwner = 0
    /\ IF poisoned
       THEN Panics(w)
       ELSE /\ lockOwner' = w
            /\ wpc' = [wpc EXCEPT ![w] = "locked"]
            /\ UNCHANGED <<poisoned, mainPc>>
    /\ UNCHANGED <<inputs, concurrency, scanned, images, held, fs, history>>
    /\ UNCHANGED fitVars

\* images.pop() and what follows it up to the call of handle_image; with
\* dropGuard the guard is dropped right after the pop.
PopWith(w, remove, dropGuard) ==
    /\ mainPc = "scope"
    /\ w \in DOMAIN wpc
    /\ wpc[w] = "locked"
    /\ IF images = <<>>
       THEN /\ wpc' = [wpc EXCEPT ![w] = "finished"]
            /\ lockOwner' = 0
            /\ UNCHANGED <<images, held, claimers>>
       ELSE /\ held' = [held EXCEPT ![w] = <<images[Len(images)]>>]
            /\ images' = IF remove THEN SubSeq(images, 1, Len(images) - 1) ELSE images
            /\ claimers' = [claimers EXCEPT ![images[Len(images)].id] = @ \cup {w}]
            /\ wpc' = [wpc EXCEPT ![w] = "handle"]
            /\ lockOwner' = IF dropGuard THEN 0 ELSE lockOwner
    /\ UNCHANGED <<inputs, concurrency, scanned, mainPc, poisoned, fs,
                   calls, sawExisting, fitted, writes, result, jobs>>
    /\ UNCHANGED fitVars

\* A pop that leaves the image in the pool.
PopLeavesImage(w) == PopWith(w, FALSE, TRUE)

\* A pop whose guard lives to the end of the closure.
PopKeepsGuard(w) == PopWith(w, TRUE, FALSE)

\* let image = images.pop(); drop(images); if image.is_none() { return }
Pop(w) == PopWith(w, TRUE, TRUE)

\* handle_image up to the return of Trainer::fit: the look at the output
\* path, then the fit.
HandleImage(t) ==
    /\ t \in DOMAIN wpc
    /\ wpc[t] = "handle"
    /\ LET job == held[t][1]
           kind == Stat(Outfile(job))
       IN /\ calls' = [calls EXCEPT ![job.id] = @ + 1]
          /\ sawExisting' = [sawExisting EXCEPT ![job.id] = kind]
          /\ IF SkipsExisting(kind, overwrite)
             THEN /\ result' = [result EXCEPT ![job.id] = "ok"]
                  /\ Returns(t)
                  /\ UNCHANGED fitted
             ELSE IF FitPanics(job.k)
             THEN /\ result' = [result EXCEPT ![job.id] = "panic"]
                  /\ Panics(t)
                  /\ UNCHANGED fitted
             ELSE /\ fitted' = [fitted EXCEPT ![job.id] = @ + 1]
                  /\ wpc' = [wpc EXCEPT ![t] = "write"]
                  /\ UNCHANGED <<result, lockOwner, poisoned, mainPc>>
    /\ UNCHANGED <<inputs, concurrency, scanned, images, held, fs, claimers,
                   writes, jobs>>
    /\ UNCHANGED fitVars

\* handle_image from the render to its return: img.save(outfile), which
\* may fail, the palette after a successful save, and Ok(()).
WriteOutput(t) ==
    /\ t \in DOMAIN wpc
    /\ wpc[t] = "write"
    /\ LET job == held[t][1]
       IN /\ \E saved \in BOOLEAN :
                /\ fs' = IF saved
                         THEN [p \in DOMAIN fs \cup {Outfile(job)} |->
                                  IF p = Outfile(job) THEN "file" ELSE fs[p]]
                         ELSE fs
                /\ writes' = [writes EXCEPT ![job.id] =
                                 @ \cup {"image"} \cup
                                 (IF saved /\ palette THEN {"palette"} ELSE {})]
          /\ result' = [result EXCEPT ![job.id] = "ok"]
    /\ Returns(t)
    /\ UNCHANGED <<inputs, concurrency, scanned, images, held,
                   calls, claimers, sawExisting, fitted, jobs>>
    /\ UNCHANGED fitVars

\* The end of thread::scope: every worker is joined; the scope panics when
\* a worker panicked, else execute returns Ok.
ScopeJoin ==
    /\ mainPc = "scope"
    /\ \A w \in DOMAIN wpc \ {0} : wpc[w] \in {"finished", "panicked"}
    /\ mainPc' = IF \E w \in DOMAIN wpc \ {0} : wpc[w] = "panicked"
                 THEN "panicked" ELSE "returned"
    /\ wpc' = [wpc EXCEPT ![0] = "finished"]
    /\ UNCHANGED <<inputs, concurrency, scanned, images, held, lockOwner,
                   poisoned, fs, history>>
    /\ UNCHANGED fitVars

Next ==
    \/ CliNew
    \/ ReadImages
    \/ Dispatch
    \/ SeqNext
    \/ \E w \in 1..MaxConcurrency : Lock(w)
    \/ \E w \in 1..MaxConcurrency : Pop(w)
    \/ \E t \in 0..MaxConcurrency : HandleImage(t)
    \/ \E t \in 0..MaxConcurrency : WriteOutput(t)
    \/ ScopeJoin

Spec == Init /\ [][Next]_vars

\* read_images alone, on one image, over a wider range of --colors and
\* --series.
InitSeries ==
    /\ fitIdle
    /\ \E cols \in 0..MaxSeriesColors,
          ser \in {<<>>} \cup {<<s>> : s \in 0..MaxSeriesCount} :
            CliStart(1, 1, cols, ser, FALSE, FALSE, 1, 1, <<>>, "scan")

SpecSeries == InitSeries /\ [][ReadImages]_vars

---------------------------------------------------------------------------
(* Claims about the command line program.                                  *)

Jobs == DOMAIN jobs

Workers == DOMAIN wpc \ {0}

Ended == mainPc \in {"returned", "panicked"}

\* C1: when execute returns, every job of the pool has been processed: the
\* pool is empty and handle_image was called on every job.
C1_EveryJobProcessed ==
    mainPc = "returned" => (images = <<>> /\ \A j \in Jobs : calls[j] >= 1)

\* C2: no job is taken from the pool by more than one thread, no two threads
\* hold the same job, and handle_image is never called twice on a job.
C2_NoJobClaimedTwice ==
    /\ \A j \in Jobs : Cardinality(claimers[j]) <= 1 /\ calls[j] <= 1
    /\ \A t, u \in DOMAIN held :
          (t # u /\ held[t] # <<>> /\ held[u] # <<>>) => held[t][1].id # held[u][1].id

\* Two workers hold two different jobs and both have called handle_image.
C2_Witness ==
    /\ mainPc = "scope"
    /\ \E w, v \in Workers :
          /\ w # v
          /\ held[w] # <<>> /\ held[v] # <<>>
          /\ calls[held[w][1].id] = 1 /\ calls[held[v][1].id] = 1

\* The k-values of the jobs in the pool, in the order pushed.
PoolColors == [n \in DOMAIN images |-> images[n].k]

\* C3: for colors >= 1 and a series count s >= 1, the jobs of one image
\* have strictly increasing k-values, all in 1..colors, of which exactly
\* one, the last, is colors; when step = colors / s is > 1 they are step * 1,
\* ..., step * (s - 1) and then colors; colors = 10 and series = 4 give
\* 2, 4, 6, 10.
C3_SeriesColors ==
    (scanned = 1 /\ colors >= 1 /\ series # <<>> /\ series # <<0>>)
    => LET ks == PoolColors
           s == series[1]
           step == colors \div s
       IN /\ \A m, n \in DOMAIN ks : m < n => ks[m] < ks[n]
          /\ \A n \in DOMAIN ks : ks[n] >= 1 /\ ks[n] <= colors
          /\ Cardinality({n \in DOMAIN ks : ks[n] = colors}) = 1
          /\ ks[Len(ks)] = colors
          /\ step > 1 => /\ Len(ks) = s
                         /\ \A i \in 1..(s - 1) : ks[i] = step * i
          /\ (colors = 10 /\ s = 4) => ks = <<2, 4, 6, 10>>

C3_Witness ==
    /\ scanned = 1 /\ colors = 10 /\ series = <<4>>
    /\ Len(images) = 4

\* A job whose cluster count no fit can serve.
InvalidJob(job) == job.k = 0 \/ job.k > pixels

\* C7: a job with k = 0 or k above the number of samples fails alone: no
\* model is fitted and no output written for it, and when the run has
\* ended every other job has been processed.
C7_InvalidJobFailsAlone ==
    \A j \in Jobs :
        InvalidJob(jobs[j])
        => /\ fitted[j] = 0
           /\ writes[j] = {}
           /\ (calls[j] >= 1 /\ Ended) => \A i \in Jobs \ {j} : calls[i] >= 1

\* C8: a --concurrency of 0 becomes the CPU count, at least 1, and with
\* more than one CPU and more than one job the dispatcher spawns that many
\* workers.
C8_AutoConcurrencyIsCpuCount ==
    (argConcurrency = 0 /\ mainPc # "new")
    => /\ concurrency = numCpus
       /\ concurrency >= 1
       /\ (numCpus > 1 /\ Cardinality(Jobs) > 1)
             => (mainPc # "sequential" /\ Workers = 1..numCpus)

\* C9: a thread inside handle_image does not hold the guard of the pool;
\* the guard is held only between the lock and the pop, the Mutex is never
\* poisoned, and a worker waiting for the lock waits for a worker that is
\* about to release it.
C9_LockOnlyAroundPop ==
    /\ ~poisoned
    /\ lockOwner # 0 => wpc[lockOwner] = "locked"
    /\ \A w \in Workers : wpc[w] \in {"handle", "write", "panicked", "finished"}
                              => lockOwner # w
    /\ \A w \in Workers : wpc[w] = "spawned"
                              => (ENABLED Lock(w) \/ ENABLED Pop(lockOwner))

\* A worker panicked inside handle_image and another one, yet to claim its
\* job, finds the pool unlocked.
C9_Witness ==
    \E w, v \in Workers :
        /\ wpc[w] = "panicked"
        /\ wpc[v] = "spawned"
        /\ lockOwner = 0
        /\ ENABLED Lock(v)

\* C10: when handle_image finds the output path existing and overwrite is
\* off, it writes neither the image nor a palette, fits no model and
\* returns Ok.
C10_ExistingOutputSkipped ==
    \A j \in Jobs :
        (sawExisting[j] \in {"file", "dir"} /\ ~overwrite)
        => (writes[j] = {} /\ fitted[j] = 0 /\ result[j] = "ok")

\* A job was skipped for its existing output while another job of the batch
\* was written.
C10_Witness ==
    /\ ~overwrite
    /\ \E j, i \in Jobs :
          /\ sawExisting[j] = "file" /\ result[j] = "ok"
          /\ "image" \in writes[i]

=============================================================================
